---------------------------- MODULE Spec2Model ----------------------------
(***************************************************************************)
(* SiloNeT offline localization: the iterative trilateration solver        *)
(* (student_algorithms/trilateration_offline_localization.py) and the grid *)
(* belief propagation solver (student_algorithms/                          *)
(* beliefPropagationLocalization.py).                                      *)
(*                                                                         *)
(* Numbers.  The trilateration solver computes in floating point.  Here    *)
(* every length and coordinate is a fixed-point integer whose unit is the  *)
(* solver's tolerance (1 unit = 0.01 length units): 500 stands for 5.00.   *)
(* Square roots and divisions round to the nearest unit.                   *)
(***************************************************************************)
EXTENDS Integers, Sequences, FiniteSets, TLC

VARIABLES
    \* ---- trilateration solver: locate_other_vehicles(known_positions, distances)
    known_positions,      \* the caller's dict, in insertion order: Seq of <<id, pos>>
    distances,            \* the dict of measurements, in insertion order: Seq of <<id1, id2, d>>
    estimated_positions,  \* Seq of <<id, pos>>
    unknown_nodes,        \* set of node ids
    max_iterations,
    iteration_count,
    progress_made,
    pending_nodes,        \* Seq of node ids
    edge_index,           \* position of the for loop in distances.items()
    pc,                   \* "call", "while", "for", "done"; "idle" when no call is made
    anchors,              \* the keys of known_positions when the call was made
    \* ---- one call of trilaterate(p1, p2, p4, d1, d2, d4)
    tri,
    \* ---- grid belief propagation: belief_propagation(known_positions, distances)
    bp

solver_vars == <<known_positions, distances, estimated_positions, unknown_nodes,
                 max_iterations, iteration_count, progress_made, pending_nodes,
                 edge_index, pc, anchors>>
vars == <<known_positions, distances, estimated_positions, unknown_nodes,
          max_iterations, iteration_count, progress_made, pending_nodes,
          edge_index, pc, anchors, tri, bp>>

\* Python's None: no position
None == <<>>

-----------------------------------------------------------------------------
(* Fixed-point arithmetic standing for numpy's floating point.             *)

Abs(x) == IF x < 0 THEN -x ELSE x
Max(a, b) == IF a >= b THEN a ELSE b

\* n / d rounded to the nearest integer (d > 0)
RoundDiv(n, d) == (2 * n + d) \div (2 * d)

RECURSIVE FloorSqrt(_, _, _)
FloorSqrt(n, lo, hi) ==
    IF lo >= hi THEN lo
    ELSE LET m == (lo + hi + 1) \div 2
         IN  IF m * m <= n THEN FloorSqrt(n, m, hi) ELSE FloorSqrt(n, lo, m - 1)

\* np.sqrt, rounded to the nearest unit
Sqrt(n) ==
    LET r == FloorSqrt(n, 0, 4000)
    IN  IF n - r * r > r THEN r + 1 ELSE r

\* np.linalg.norm(p - q)
Norm(p, q) == Sqrt((p[1] - q[1]) * (p[1] - q[1]) + (p[2] - q[2]) * (p[2] - q[2]))

\* self.tolerance = 1e-2: the unit of the fixed-point numbers
tolerance == 1

\* np.isclose(a, b, atol=self.tolerance): |a - b| <= atol + rtol * |b|, rtol = 1e-5
IsClose(a, b) == Abs(a - b) <= tolerance + (Abs(b) \div 100000)

-----------------------------------------------------------------------------
(* circle_intersection and trilaterate                                      *)

circle_intersection(p1, r1, p2, r2) ==
    LET d == Norm(p1, p2)
    IN  IF d > r1 + r2 \/ d < Abs(r1 - r2) \/ d = 0
        THEN <<None, None>>
        ELSE LET a == RoundDiv(r1 * r1 - r2 * r2 + d * d, 2 * d)
                 h == Sqrt(Max(0, r1 * r1 - a * a))
                 mid == <<p1[1] + RoundDiv(a * (p2[1] - p1[1]), d),
                          p1[2] + RoundDiv(a * (p2[2] - p1[2]), d)>>
                 \* h * [-(p2[1]-p1[1])/d, (p2[0]-p1[0])/d]; the product is taken
                 \* before the division so that the quotient keeps its precision
                 offset == <<RoundDiv(h * (-(p2[2] - p1[2])), d),
                             RoundDiv(h * (p2[1] - p1[1]), d)>>
             IN  <<<<mid[1] + offset[1], mid[2] + offset[2]>>,
                   <<mid[1] - offset[1], mid[2] - offset[2]>>>>

\* a plausible slip: no fallback, an attempt whose candidates both miss d4 fails
trilaterate_no_fallback(p1, p2, p4, d1, d2, d4) ==
    LET c == circle_intersection(p1, d1, p2, d2)
        p3a == c[1]
        p3b == c[2]
    IN  IF p3a = None \/ p3b = None THEN None
        ELSE IF IsClose(Norm(p4, p3a), d4) THEN p3a
        ELSE IF IsClose(Norm(p4, p3b), d4) THEN p3b
        ELSE None

trilaterate(p1, p2, p4, d1, d2, d4) ==
    LET c == circle_intersection(p1, d1, p2, d2)
        p3a == c[1]
        p3b == c[2]
    IN  IF p3a = None \/ p3b = None THEN None
        ELSE LET d3a == Norm(p4, p3a)
                 d3b == Norm(p4, p3b)
             IN  IF IsClose(d3a, d4) THEN p3a
                 ELSE IF IsClose(d3b, d4) THEN p3b
                 ELSE <<RoundDiv(p3a[1] + p3b[1], 2), RoundDiv(p3a[2] + p3b[2], 2)>>

-----------------------------------------------------------------------------
(* Python dicts keep insertion order: a dict is a sequence of entries.     *)

\* dict.keys() as a set, for `in` tests
Keys(dict) == {dict[i][1] : i \in 1..Len(dict)}

\* dict[k], k present
Get(dict, k) == dict[CHOOSE i \in 1..Len(dict) : dict[i][1] = k][2]

\* dict[k] = v: an existing key keeps its place, a new key goes last
Put(dict, k, v) ==
    IF k \in Keys(dict)
    THEN [i \in 1..Len(dict) |-> IF dict[i][1] = k THEN <<k, v>> ELSE dict[i]]
    ELSE Append(dict, <<k, v>>)

\* (i, j) in distances
HasDist(dist, i, j) == \E n \in 1..Len(dist) : dist[n][1] = i /\ dist[n][2] = j

\* distances[(i, j)], the key present
DistOf(dist, i, j) ==
    dist[CHOOSE n \in 1..Len(dist) : dist[n][1] = i /\ dist[n][2] = j][3]

\* set(node for edge in distances for node in edge)
NodesOf(dist) ==
    {dist[n][1] : n \in 1..Len(dist)} \cup {dist[n][2] : n \in 1..Len(dist)}

-----------------------------------------------------------------------------
(* locate_other_vehicles: the neighbour list of an unknown node            *)

\* [(k, distances.get((id2, k), distances.get((k, id2)))) for k in known_positions.keys()
\*  if (id2, k) in distances or (k, id2) in distances]
RECURSIVE KnownNeighbors(_, _, _, _)
KnownNeighbors(known, dist, id2, i) ==
    IF i > Len(known) THEN <<>>
    ELSE LET k == known[i][1]
             rest == KnownNeighbors(known, dist, id2, i + 1)
         IN  IF HasDist(dist, id2, k) THEN <<<<k, DistOf(dist, id2, k)>>>> \o rest
             ELSE IF HasDist(dist, k, id2) THEN <<<<k, DistOf(dist, k, id2)>>>> \o rest
             ELSE rest

\* one step of a stable sort by x[1] (the distance): x goes behind every entry
\* whose distance is not greater
InsertStable(sorted, x) ==
    LET before == SelectSeq(sorted, LAMBDA y : y[2] <= x[2])
        after == SelectSeq(sorted, LAMBDA y : y[2] > x[2])
    IN  before \o <<x>> \o after

\* sorted(list, key=lambda x: x[1]): Python's sort is stable
RECURSIVE SortedByDistance(_, _)
SortedByDistance(list, n) ==
    IF n = 0 THEN <<>> ELSE InsertStable(SortedByDistance(list, n - 1), list[n])

neighbors(known, dist, id2) ==
    LET list == KnownNeighbors(known, dist, id2, 1)
    IN  SortedByDistance(list, Len(list))

\* lines 90-92: the three closest known neighbours, handed to trilaterate
Estimate(known, nbrs) ==
    trilaterate(Get(known, nbrs[1][1]), Get(known, nbrs[2][1]), Get(known, nbrs[3][1]),
                nbrs[1][2], nbrs[2][2], nbrs[3][2])

-----------------------------------------------------------------------------
(* locate_other_vehicles, one action per step of its loops                 *)

\* lines 66-70
Call ==
    /\ pc = "call"
    /\ estimated_positions' = <<>>
    /\ unknown_nodes' = NodesOf(distances) \ Keys(known_positions)
    /\ max_iterations' = Cardinality(NodesOf(distances) \ Keys(known_positions))
                         * Cardinality(NodesOf(distances) \ Keys(known_positions))
    /\ iteration_count' = 0
    /\ pc' = "while"
    /\ UNCHANGED <<known_positions, distances, progress_made, pending_nodes,
                   edge_index, anchors, tri, bp>>

\* line 72, true: lines 73-74 and the for loop starts
BeginPass ==
    /\ pc = "while"
    /\ Len(estimated_positions) < Cardinality(unknown_nodes)
    /\ progress_made' = FALSE
    /\ pending_nodes' = <<>>
    /\ edge_index' = 1
    /\ pc' = "for"
    /\ UNCHANGED <<known_positions, distances, estimated_positions, unknown_nodes,
                   max_iterations, iteration_count, anchors, tri, bp>>

\* line 72, false: line 112
Return ==
    /\ pc = "while"
    /\ ~(Len(estimated_positions) < Cardinality(unknown_nodes))
    /\ pc' = "done"
    /\ UNCHANGED <<known_positions, distances, estimated_positions, unknown_nodes,
                   max_iterations, iteration_count, progress_made, pending_nodes,
                   edge_index, anchors, tri, bp>>

\* line 77: the edge under the for loop is (known, not known)
Candidate(known, edge) == edge[1] \in Keys(known) /\ edge[2] \notin Keys(known)

\* line 77, false: the edge is passed over
SkipEdge ==
    /\ pc = "for"
    /\ edge_index <= Len(distances)
    /\ ~Candidate(known_positions, distances[edge_index])
    /\ edge_index' = edge_index + 1
    /\ UNCHANGED <<known_positions, distances, estimated_positions, unknown_nodes,
                   max_iterations, iteration_count, progress_made, pending_nodes,
                   pc, anchors, tri, bp>>

\* lines 85-87: fewer than 3 known neighbours
DeferNode ==
    /\ pc = "for"
    /\ edge_index <= Len(distances)
    /\ Candidate(known_positions, distances[edge_index])
    /\ LET id2 == distances[edge_index][2]
       IN  /\ Len(neighbors(known_positions, distances, id2)) < 3
           /\ pending_nodes' = Append(pending_nodes, id2)
    /\ edge_index' = edge_index + 1
    /\ UNCHANGED <<known_positions, distances, estimated_positions, unknown_nodes,
                   max_iterations, iteration_count, progress_made, pc, anchors, tri, bp>>

\* a plausible slip: the estimate is not fed back into the known set
UpdateKnown_forgotten(known, id2, estimated_p) == known

\* line 96: known_positions[id2] = estimated_p, on the dict the caller passed
UpdateKnown(known, id2, estimated_p) == Put(known, id2, estimated_p)

\* lines 90-98, trilaterate returns a position
ResolveNode ==
    /\ pc = "for"
    /\ edge_index <= Len(distances)
    /\ Candidate(known_positions, distances[edge_index])
    /\ LET id2 == distances[edge_index][2]
           nbrs == neighbors(known_positions, distances, id2)
       IN  /\ Len(nbrs) >= 3
           /\ Estimate(known_positions, nbrs) # None
           /\ estimated_positions' =
                  Put(estimated_positions, id2, Estimate(known_positions, nbrs))
           /\ known_positions' =
                  UpdateKnown(known_positions, id2, Estimate(known_positions, nbrs))
    /\ progress_made' = TRUE
    /\ edge_index' = edge_index + 1
    /\ UNCHANGED <<distances, unknown_nodes, max_iterations, iteration_count,
                   pending_nodes, pc, anchors, tri, bp>>

\* lines 90-94, trilaterate returns None
NoSolution ==
    /\ pc = "for"
    /\ edge_index <= Len(distances)
    /\ Candidate(known_positions, distances[edge_index])
    /\ LET id2 == distances[edge_index][2]
           nbrs == neighbors(known_positions, distances, id2)
       IN  /\ Len(nbrs) >= 3
           /\ Estimate(known_positions, nbrs) = None
    /\ edge_index' = edge_index + 1
    /\ UNCHANGED <<known_positions, distances, estimated_positions, unknown_nodes,
                   max_iterations, iteration_count, progress_made, pending_nodes,
                   pc, anchors, tri, bp>>

\* a plausible slip: the loop is left after any pass without progress
LoopExit_stop_without_progress(count, max, progress, pending) ==
    count > max \/ ~progress

\* a plausible slip: the break is outside its if, the loop ends after one pass
LoopExit_after_one_pass(count, max, progress, pending) == TRUE

\* a plausible slip: the iteration cap is not tested
LoopExit_no_cap(count, max, progress, pending) ==
    IF ~progress /\ pending # <<>> THEN FALSE
    ELSE IF ~progress THEN TRUE
    ELSE FALSE

\* lines 102-110: whether the while loop is left after a pass
LoopExit(count, max, progress, pending) ==
    IF count > max THEN TRUE
    ELSE IF ~progress /\ pending # <<>> THEN FALSE
    ELSE IF ~progress THEN TRUE
    ELSE FALSE

\* lines 100-110: the for loop is exhausted
EndPass ==
    /\ pc = "for"
    /\ edge_index > Len(distances)
    /\ iteration_count' = iteration_count + 1
    /\ pc' = IF LoopExit(iteration_count + 1, max_iterations, progress_made, pending_nodes)
             THEN "done" ELSE "while"
    /\ UNCHANGED <<known_positions, distances, estimated_positions, unknown_nodes,
                   max_iterations, progress_made, pending_nodes, edge_index,
                   anchors, tri, bp>>

-----------------------------------------------------------------------------
(* The inputs of the trilateration solver                                  *)

\* the anchors and where they are
AnchorPlace == <<<<0, <<0, 0>>>>, <<1, <<600, 0>>>>, <<2, <<0, 800>>>>>>

\* the orders in which a caller may have inserted the anchors
AnchorOrders ==
    {<<AnchorPlace[a], AnchorPlace[b], AnchorPlace[c]>> :
        <<a, b, c>> \in {p \in (1..3) \X (1..3) \X (1..3) : Cardinality({p[1], p[2], p[3]}) = 3}}

\* The measured pairs {i, j}, i < j, in the order in which
\* NetworkSimulator._generate_edges inserts them; each is stored as (i, j),
\* as (j, i) or both.  A table gives each pair its measured distance:
\*   1: exact, node 3 at (3.00, 4.00) and node 4 at (3.00, -4.00), equal distances
\*   2: the two shortest measurements of node 3 are too short for its circles to meet
\*   3: noisy, all distances different
Measurements ==
    << <<<<0, 3, 500>>, <<0, 4, 500>>, <<1, 3, 500>>, <<1, 4, 500>>, <<2, 3, 500>>, <<3, 4, 800>>>>,
       <<<<0, 3, 100>>, <<0, 4, 500>>, <<1, 3, 100>>, <<1, 4, 500>>, <<2, 3, 500>>, <<3, 4, 800>>>>,
       <<<<0, 3, 510>>, <<0, 4, 480>>, <<1, 3, 490>>, <<1, 4, 530>>, <<2, 3, 520>>, <<3, 4, 790>>>> >>

\* at most this many keys in a distance map
MaxKeys == 6

\* both directions of every pair, (i, j) then (j, i), as the simulator inserts them
RECURSIVE BothDirections(_, _)
BothDirections(table, n) ==
    IF n = 0 THEN <<>>
    ELSE BothDirections(table, n - 1)
         \o <<table[n], <<table[n][2], table[n][1], table[n][3]>>>>

\* the distance maps: any choice of at most MaxKeys keys of a table
DistanceMaps ==
    UNION {
        LET all == BothDirections(Measurements[t], Len(Measurements[t]))
        IN  {SelectSeq(all, LAMBDA e : <<e[1], e[2]>> \in K) :
                K \in {S \in SUBSET {<<all[n][1], all[n][2]>> : n \in 1..Len(all)} :
                          Cardinality(S) <= MaxKeys}}
        : t \in 1..Len(Measurements)}

Idle == [pc |-> "idle"]

Init ==
    /\ known_positions \in AnchorOrders
    /\ distances \in DistanceMaps
    /\ anchors = Keys(known_positions)
    /\ estimated_positions = <<>>
    /\ unknown_nodes = {}
    /\ max_iterations = 0
    /\ iteration_count = 0
    /\ progress_made = FALSE
    /\ pending_nodes = <<>>
    /\ edge_index = 0
    /\ pc = "call"
    /\ tri = Idle
    /\ bp = Idle

Next ==
    \/ Call
    \/ BeginPass
    \/ SkipEdge
    \/ DeferNode
    \/ ResolveNode
    \/ NoSolution
    \/ EndPass
    \/ Return

Spec == Init /\ [][Next]_vars

-----------------------------------------------------------------------------
(* Properties of the trilateration solver                                  *)

\* the unknown nodes of the call, from its arguments
UnknownOfCall == NodesOf(distances) \ anchors

\* an upper bound on the number of steps the call still takes
Rank ==
    LET cap == Cardinality(UnknownOfCall) * Cardinality(UnknownOfCall)
        pass == Len(distances) + 3
    IN  CASE pc = "done"  -> 0
          [] pc = "call"  -> (cap + 2) * pass + 1
          [] pc = "while" -> (cap + 2 - iteration_count) * pass
          [] pc = "for"   -> (cap + 2 - iteration_count) * pass - edge_index

\* some step of the call can be taken: the guards of its actions, written out
CanStep ==
    \/ pc \in {"call", "while"}
    \/ pc = "for" /\ edge_index > Len(distances)
    \/ /\ pc = "for"
       /\ edge_index \in 1..Len(distances)
       /\ \/ ~Candidate(known_positions, distances[edge_index])
          \/ LET nbrs == neighbors(known_positions, distances, distances[edge_index][2])
             IN  \/ Len(nbrs) < 3
                 \/ Estimate(known_positions, nbrs) = None
                 \/ Len(Estimate(known_positions, nbrs)) = 2

\* C1: locate_other_vehicles terminates for every input: until it has
\* returned it can always take a step, every step lowers a rank that is never
\* negative, the number of completed passes never exceeds |unknown_nodes|^2 + 1,
\* and what it returns has only unknown nodes as keys.
C1_Terminates ==
    /\ [][Rank' < Rank]_vars
    /\ [](Rank >= 0)
    /\ [](pc # "done" => CanStep)
    /\ [](iteration_count <= Cardinality(UnknownOfCall) * Cardinality(UnknownOfCall) + 1)
    /\ [](pc = "done" => Keys(estimated_positions) \subseteq UnknownOfCall)

\* C1 witness: a run in which no node ever had 3 known neighbours has ended,
\* by the iteration cap, with an empty result
C1_Witness ==
    /\ pc = "done"
    /\ unknown_nodes # {}
    /\ estimated_positions = <<>>
    /\ iteration_count = max_iterations + 1
    /\ \A u \in unknown_nodes : Len(neighbors(known_positions, distances, u)) < 3

\* C2: at every step the keys of known_positions are the initial anchors plus
\* the keys of estimated_positions, the two are disjoint, no key is held twice,
\* and known_positions never shrinks.
C2_KnownIsAnchorsPlusEstimated ==
    /\ [](pc # "call" =>
            /\ Keys(known_positions) = anchors \cup Keys(estimated_positions)
            /\ anchors \cap Keys(estimated_positions) = {}
            /\ Len(known_positions) = Cardinality(Keys(known_positions))
            /\ Len(estimated_positions) = Cardinality(Keys(estimated_positions)))
    /\ [][Len(known_positions') >= Len(known_positions)]_vars

\* C2 witness: a pass has been completed in which two nodes were resolved
C2_Witness ==
    /\ pc = "while"
    /\ iteration_count >= 1
    /\ Len(estimated_positions) = 2
    /\ Len(known_positions) = 5

\* every measurement of u is one with an anchor, in whichever direction it is stored
OnlyAnchorNeighbors(u) ==
    \A n \in 1..Len(distances) :
        /\ distances[n][1] = u => distances[n][2] \in anchors
        /\ distances[n][2] = u => distances[n][1] \in anchors

\* C3: a measurement stored under (u, known) counts like one stored under
\* (known, u): an unknown node all of whose measurements are with anchors, at
\* least 3 of them, and whose 3 nearest anchors trilaterate to a position, is
\* resolved when the call returns, whatever the direction of its keys.
C3_DirectionIrrelevant ==
    pc = "done" =>
        \A u \in unknown_nodes :
            (/\ OnlyAnchorNeighbors(u)
             /\ Len(neighbors(known_positions, distances, u)) >= 3
             /\ Estimate(known_positions, neighbors(known_positions, distances, u)) # None)
            => u \in Keys(estimated_positions)

\* C8: when the call returns, the mapping the caller passed holds exactly the
\* initial anchors.
C8_CallerMappingUnchanged ==
    pc = "done" => Keys(known_positions) = anchors

\* the step that ends a pass in which no node was resolved
EndsPassWithoutProgress ==
    pc = "for" /\ edge_index > Len(distances) /\ ~progress_made

\* C9 as stated: after a pass without progress no further pass is executed.
C9_StopsOnFirstIdlePass ==
    [][EndsPassWithoutProgress => pc' = "done"]_vars

\* C9 as amended: after a pass without progress the loop is left exactly when
\* no node was deferred in that pass or the count of passes exceeds
\* |unknown_nodes|^2; otherwise the next pass begins.
C9_StopsOnIdlePassUnlessDeferred ==
    [][EndsPassWithoutProgress =>
          /\ pc' = "done" <=> (pending_nodes = <<>> \/ iteration_count' > max_iterations)
          /\ pc' # "done" =>
                (pc' = "while" /\ Len(estimated_positions') < Cardinality(unknown_nodes'))]_vars

\* C9 witness: a pass without progress that deferred a node has ended and
\* the next pass is about to begin
C9_Witness ==
    /\ pc = "while"
    /\ iteration_count >= 1
    /\ ~progress_made
    /\ pending_nodes # <<>>
    /\ Len(estimated_positions) < Cardinality(unknown_nodes)

\* C10: the neighbours handed to trilaterate are in ascending distance, equal
\* distances in ascending neighbour id.
C10_TiesByNeighborId ==
    (pc = "for" /\ edge_index <= Len(distances)
        /\ Candidate(known_positions, distances[edge_index])) =>
        LET nbrs == neighbors(known_positions, distances, distances[edge_index][2])
        IN  Len(nbrs) >= 3 =>
                \A i \in 1..2 :
                    \/ nbrs[i][2] < nbrs[i + 1][2]
                    \/ nbrs[i][2] = nbrs[i + 1][2] /\ nbrs[i][1] < nbrs[i + 1][1]

\* what one more pass would do with node u: some key (known, u) is there, u
\* has 3 known neighbours and trilaterate gives a position for the nearest 3
WouldResolve(u) ==
    /\ \E n \in 1..Len(distances) :
          Candidate(known_positions, distances[n]) /\ distances[n][2] = u
    /\ Len(neighbors(known_positions, distances, u)) >= 3
    /\ Estimate(known_positions, neighbors(known_positions, distances, u)) # None

\* C11: when the call returns the result is a fixpoint: no unknown node
\* absent from estimated_positions would be resolved by one more pass, and
\* a run ended by the iteration cap ended on a pass without progress.
C11_ReturnsFixpoint ==
    pc = "done" =>
        /\ \A u \in unknown_nodes \ Keys(estimated_positions) : ~WouldResolve(u)
        /\ iteration_count > max_iterations => ~progress_made

\* C11 witness: a run that resolved a node in one pass and another node in a
\* later pass has returned, or a run with a resolved node and a node left
\* over at a key (known, unknown) was ended by the iteration cap
C11_Witness ==
    /\ pc = "done"
    /\ Len(estimated_positions) >= 1
    /\ \/ Len(estimated_positions) = 2 /\ iteration_count = 2 /\ pending_nodes = <<>>
       \/ /\ iteration_count > max_iterations
          /\ \E n \in 1..Len(distances) : Candidate(known_positions, distances[n])

-----------------------------------------------------------------------------
(* trilaterate as a function of its arguments                              *)

\* the points and the distances the arguments are drawn from; with 1 unit =
\* 0.01, <<1000, 0>> is the point (10, 0) and 100 the distance 1
TriPoints == {<<0, 0>>, <<1000, 0>>, <<600, 0>>, <<0, 800>>, <<300, 400>>}
TriDistances == {0, 100, 500, 800}

TriInit ==
    /\ tri \in [pc : {"call"}, p1 : TriPoints, p2 : TriPoints, p4 : TriPoints,
                d1 : TriDistances, d2 : TriDistances, d4 : TriDistances,
                result : {None}]
    /\ bp = Idle
    /\ pc = "idle"
    /\ known_positions = <<>>
    /\ distances = <<>>
    /\ anchors = {}
    /\ estimated_positions = <<>>
    /\ unknown_nodes = {}
    /\ max_iterations = 0
    /\ iteration_count = 0
    /\ progress_made = FALSE
    /\ pending_nodes = <<>>
    /\ edge_index = 0

\* lines 37-62
Trilaterate ==
    /\ tri.pc = "call"
    /\ tri' = [tri EXCEPT !.pc = "done",
                          !.result = trilaterate(tri.p1, tri.p2, tri.p4, tri.d1, tri.d2, tri.d4)]
    /\ UNCHANGED <<solver_vars, bp>>

TriNext == Trilaterate

SpecTri == TriInit /\ [][TriNext]_vars

\* the circles around p1 and p2 cannot be intersected
Impossible(p1, d1, p2, d2) ==
    \/ Norm(p1, p2) > d1 + d2
    \/ Norm(p1, p2) < Abs(d1 - d2)
    \/ Norm(p1, p2) = 0

\* C7: trilaterate returns None exactly when dist(p1,p2) > d1+d2, or
\* dist(p1,p2) < |d1-d2|, or dist(p1,p2) = 0, whatever p4 and d4 are;
\* otherwise it returns one of the two candidates or their midpoint; and
\* p1 = (0,0), d1 = 1, p2 = (10,0), d2 = 1 gives None.
C7_NoneIffCirclesImpossible ==
    tri.pc = "done" =>
        /\ tri.result = None <=> Impossible(tri.p1, tri.d1, tri.p2, tri.d2)
        /\ tri.result # None =>
              LET c == circle_intersection(tri.p1, tri.d1, tri.p2, tri.d2)
              IN  tri.result \in {c[1], c[2],
                                  <<RoundDiv(c[1][1] + c[2][1], 2), RoundDiv(c[1][2] + c[2][2], 2)>>}
        /\ (tri.p1 = <<0, 0>> /\ tri.d1 = 100 /\ tri.p2 = <<1000, 0>> /\ tri.d2 = 100)
              => tri.result = None

\* C7 witness: the circles meet, neither candidate is at d4 from p4, and the
\* call has returned the midpoint
C7_Witness ==
    /\ tri.pc = "done"
    /\ ~Impossible(tri.p1, tri.d1, tri.p2, tri.d2)
    /\ LET c == circle_intersection(tri.p1, tri.d1, tri.p2, tri.d2)
       IN  /\ ~IsClose(Norm(tri.p4, c[1]), tri.d4)
           /\ ~IsClose(Norm(tri.p4, c[2]), tri.d4)
           /\ c[1] # c[2]
           /\ tri.result # None

-----------------------------------------------------------------------------
(* Grid belief propagation: beliefPropagationLocalization.py               *)
(*                                                                         *)
(* bp is the state of one call of belief_propagation:                      *)
(*   known_positions  function id -> position (the dict is only read)      *)
(*   distances        function <<id1, id2>> -> distance                    *)
(*   unknown_nodes, estimated_positions (function id -> position)          *)
(*   todo             the nodes the for loop of line 43 has not reached    *)
(*   pc               "call", "loop", "done", or "raised" after a KeyError *)
(* Lengths are in the same unit of 0.01.                                   *)

\* __init__ defaults: grid_size=1, noise_std=0.5
grid_size == 100
noise_std == 50

\* the side of the area in grid cells: area_size = AreaCells * grid_size
AreaCells == 3
area_size == AreaCells * grid_size

\* initialize_belief_grid: the raveled meshgrid, row by row: index n is the
\* cell <<grid_x, grid_y>> with grid_y constant along a row
GridCells ==
    [n \in 1..(AreaCells * AreaCells) |->
        <<((n - 1) % AreaCells) * grid_size, ((n - 1) \div AreaCells) * grid_size>>]

\* line 49: nbr in ([a] if node == b else [b]), for a key (a, b) holding node
NbrOf(node, key) == IF node = key[2] THEN key[1] ELSE key[2]

\* lines 48-50: the keys (a, b) of distances for which the comprehension
\* yields an entry: node in (a, b) and nbr in known_positions
NeighborKeys(known, dist, node) ==
    {key \in DOMAIN dist :
        (node = key[1] \/ node = key[2]) /\ NbrOf(node, key) \in DOMAIN known}

\* line 47: distances[(node, nbr)] raises KeyError for some entry
RaisesKeyError(known, dist, node) ==
    \E key \in NeighborKeys(known, dist, node) :
        <<node, NbrOf(node, key)>> \notin DOMAIN dist

\* norm.pdf(dist_map, loc=d, scale=noise_std) is exp(-dev^2 / (2 noise_std^2))
\* up to a constant factor, dev = dist_map - d.  A belief is kept as the sum of
\* the dev^2 of its factors; it is 0.0 in double precision once the exponent
\* passes 745, that is once the sum passes 1490 * noise_std^2.
Deviation2(cell, nbr_pos, d) == (Norm(cell, nbr_pos) - d) * (Norm(cell, nbr_pos) - d)

RECURSIVE SumDeviation2(_, _, _, _, _)
SumDeviation2(known, dist, node, keys, cell) ==
    IF keys = {} THEN 0
    ELSE LET key == CHOOSE k \in keys : TRUE
             nbr == NbrOf(node, key)
         IN  Deviation2(cell, known[nbr], dist[<<node, nbr>>])
             + SumDeviation2(known, dist, node, keys \ {key}, cell)

\* lines 51-55: the belief surface of node, cell by cell
Belief(known, dist, node) ==
    [n \in 1..(AreaCells * AreaCells) |->
        SumDeviation2(known, dist, node, NeighborKeys(known, dist, node), GridCells[n])]

IsZero(b) == b > 1490 * noise_std * noise_std

\* np.max(belief) is 0.0: every cell has underflowed
MaxIsZero(belief) == \A n \in DOMAIN belief : IsZero(belief[n])

\* lines 58-61: belief /= np.max(belief), then np.argmax: the first cell of the
\* greatest belief; when the maximum is 0.0 the division gives nan everywhere
\* (a warning, no exception) and argmax of an all-nan array is index 0
ArgMax(belief) ==
    IF MaxIsZero(belief) THEN 1
    ELSE CHOOSE n \in DOMAIN belief :
            /\ \A m \in DOMAIN belief : belief[n] <= belief[m]
            /\ \A m \in DOMAIN belief : m < n => belief[m] > belief[n]

\* lines 39-40
BPCall ==
    /\ bp.pc = "call"
    /\ bp' = [bp EXCEPT
                !.pc = "loop",
                !.unknown_nodes = ({k[1] : k \in DOMAIN bp.distances}
                                   \cup {k[2] : k \in DOMAIN bp.distances})
                                  \ DOMAIN bp.known_positions,
                !.todo = ({k[1] : k \in DOMAIN bp.distances}
                          \cup {k[2] : k \in DOMAIN bp.distances})
                         \ DOMAIN bp.known_positions,
                !.estimated_positions = <<>>]
    /\ UNCHANGED <<solver_vars, tri>>

\* lines 43-64 for one node, no exception; a set is iterated in no fixed order
BPEstimate ==
    /\ bp.pc = "loop"
    /\ \E node \in bp.todo :
        /\ ~RaisesKeyError(bp.known_positions, bp.distances, node)
        /\ LET belief == Belief(bp.known_positions, bp.distances, node)
           IN  bp' = [bp EXCEPT
                        !.todo = bp.todo \ {node},
                        !.estimated_positions =
                            [k \in DOMAIN bp.estimated_positions \cup {node} |->
                                IF k = node THEN GridCells[ArgMax(belief)]
                                ELSE bp.estimated_positions[k]]]
    /\ UNCHANGED <<solver_vars, tri>>

\* line 47 raises KeyError: the call is over, nothing is returned
BPKeyError ==
    /\ bp.pc = "loop"
    /\ \E node \in bp.todo : RaisesKeyError(bp.known_positions, bp.distances, node)
    /\ bp' = [bp EXCEPT !.pc = "raised"]
    /\ UNCHANGED <<solver_vars, tri>>

\* line 66
BPReturn ==
    /\ bp.pc = "loop"
    /\ bp.todo = {}
    /\ bp' = [bp EXCEPT !.pc = "done"]
    /\ UNCHANGED <<solver_vars, tri>>

\* the anchors of the grid solver's inputs
BPAnchors == (0 :> <<0, 0>>) @@ (1 :> <<200, 0>>) @@ (2 :> <<0, 200>>)

\* The measured pairs and their distances:
\*   1: exact, node 3 at (1, 1) and node 4 at (2, 2)
\*   2: the measurements of node 3 are far beyond anything the area allows
BPMeasurements ==
    << <<<<0, 3, 141>>, <<1, 3, 141>>, <<2, 3, 141>>, <<0, 4, 283>>, <<1, 4, 200>>, <<2, 4, 200>>>>,
       <<<<0, 3, 2500>>, <<1, 3, 2500>>, <<2, 3, 2500>>, <<0, 4, 283>>, <<1, 4, 200>>, <<2, 4, 200>>>> >>

\* the distance maps: any choice of at most MaxKeys keys of a table
BPDistanceMaps ==
    UNION {
        LET all == BothDirections(BPMeasurements[t], Len(BPMeasurements[t]))
            d(key) == all[CHOOSE n \in 1..Len(all) : <<all[n][1], all[n][2]>> = key][3]
        IN  {[key \in K |-> d(key)] :
                K \in {S \in SUBSET {<<all[n][1], all[n][2]>> : n \in 1..Len(all)} :
                          Cardinality(S) <= MaxKeys}}
        : t \in 1..Len(BPMeasurements)}

BPInit ==
    /\ bp \in [pc : {"call"}, known_positions : {BPAnchors}, distances : BPDistanceMaps,
               unknown_nodes : {{}}, todo : {{}}, estimated_positions : {<<>>}]
    /\ tri = Idle
    /\ pc = "idle"
    /\ known_positions = <<>>
    /\ distances = <<>>
    /\ anchors = {}
    /\ estimated_positions = <<>>
    /\ unknown_nodes = {}
    /\ max_iterations = 0
    /\ iteration_count = 0
    /\ progress_made = FALSE
    /\ pending_nodes = <<>>
    /\ edge_index = 0

BPNext ==
    \/ BPCall
    \/ BPEstimate
    \/ BPKeyError
    \/ BPReturn

SpecBP == BPInit /\ [][BPNext]_vars

\* the known nodes with a measured distance to node, in either direction
BPKnownNeighbors(node) ==
    {k \in DOMAIN bp.known_positions :
        <<node, k>> \in DOMAIN bp.distances \/ <<k, node>> \in DOMAIN bp.distances}

\* C4: belief_propagation never raises, whichever direction a pair of an
\* unknown node and a known neighbour is stored in.
C4_NeverRaises == bp.pc # "raised"

\* C5: an unknown node with fewer than 3 known neighbours is absent from
\* estimated_positions.
C5_FewNeighborsUnresolved ==
    \A node \in DOMAIN bp.estimated_positions : Cardinality(BPKnownNeighbors(node)) >= 3

\* C6: a node whose belief is zero in every grid cell is absent from
\* estimated_positions, also when it has 3 or more known neighbours.
C6_ZeroBeliefUnresolved ==
    \A node \in DOMAIN bp.estimated_positions :
        Cardinality(BPKnownNeighbors(node)) >= 3 =>
            ~MaxIsZero(Belief(bp.known_positions, bp.distances, node))

=============================================================================
